---- MODULE Spec2Model ----
(***************************************************************************)
(* A model of vicky.py: the thread-safe token bucket (TokenBucketRate-     *)
(* Limiter) and the load harness that drives it (TrafficSimulator).        *)
(*                                                                         *)
(* Numbers.  The program computes with floats; the model computes with     *)
(* exact fixed-point numbers.  The clock counts ticks; a token is Scale    *)
(* token-units; refill_rate is the number of token-units accrued per tick. *)
(* So available_tokens holds token-units, "available_tokens >= 1" reads    *)
(* available_tokens >= Scale, and elapsed * refill_rate is a product of    *)
(* integers.  Float rounding is not modelled.                              *)
(***************************************************************************)
EXTENDS Integers, Sequences, FiniteSets

\* ---- bounds of the model ----
NumThreads == 2        \* threads started by run_test
MaxTime == 3           \* the clock reads 0..MaxTime
MaxCapacity == 2       \* max_tokens argument is at most this
MaxRate == 2           \* refill_rate argument is 0..MaxRate
MaxDuration == 1       \* duration argument is 0..MaxDuration
MaxCalls == 4          \* threads calling allow_request make at most this many calls together
MaxWorkerCalls == 2    \* the workers of run_test make at most this many calls together
WorkerCapacity == 1    \* max_tokens of the limiter the workers call
Scale == 2             \* token-units per token
ConstructTime == 1     \* clock reading when the objects are constructed
MaxReports == 2        \* print_results is called at most this many times
Decimals == 1000000    \* the report prints latencies to 6 decimal places

Threads == 1..NumThreads
NoThread == 0

VARIABLES
    clock,                   \* what time.time() returns now
    max_tokens,              \* TokenBucketRateLimiter fields
    refill_rate,
    available_tokens,
    last_refill_timestamp,
    lock,                    \* limiter.lock: its holder, or NoThread
    now,                     \* the local "now" of _refill, per thread
    entry,                   \* <<available_tokens, last_refill_timestamp>> as each
                             \* thread found them on entering the critical section
    seq,                     \* the same calls applied one at a time to a
                             \* sequential bucket: <<tokens, timestamp>>
    expect,                  \* what the sequential bucket answered each thread
    duration,                \* TrafficSimulator fields
    allowed,
    blocked,
    latencies,
    sim_lock,                \* simulator.lock: its holder, or NoThread
    pc,                      \* each thread's position
    end_time,                \* request_worker locals, per worker
    start,
    result,                  \* what allow_request returned to each thread
    latency,
    counter,                 \* the counter value a worker read for its "+= 1"
    calls,                   \* allow_request calls completed, by all threads
    admitted,                \* allow_request calls that returned True
    main_pc,                 \* run_test's position
    started,                 \* threads run_test has started
    joined,                  \* threads run_test has joined
    printed,                 \* what print_results last wrote
    reports                  \* calls of print_results

limiter_vars == <<max_tokens, refill_rate, available_tokens, last_refill_timestamp>>
call_vars == <<now, entry, seq, expect>>
sim_vars == <<duration, allowed, blocked, latencies>>
local_vars == <<end_time, start, latency, counter>>
main_vars == <<main_pc, started, joined, printed, reports>>
vars == <<clock, limiter_vars, lock, call_vars, sim_vars, sim_lock, pc, local_vars,
          result, calls, admitted, main_vars>>

Min(a, b) == IF a <= b THEN a ELSE b

\* What allow_request returns, and the value of a variable that holds no
\* result.
True == "True"
False == "False"
None == "None"

\* A local variable that holds no clock reading; a thread that holds no
\* snapshot of the bucket.
NoReading == 0 - 1
NoEntry == <<0, NoReading>>

\* ---- TokenBucketRateLimiter ----

\* __init__: the bucket starts full, stamped with the construction time.
\* No argument is rejected.
LimiterInit(capacity, rate) ==
    /\ max_tokens = capacity
    /\ refill_rate = rate
    /\ available_tokens = capacity * Scale
    /\ last_refill_timestamp = clock
    /\ lock = NoThread

\* _refill, as a function of the bucket and the clock reading t:
\* the new <<available_tokens, last_refill_timestamp>>.
RefillAmount(last, t, rate) == (t - last) * rate

\* Faulty variants of Refilled: the clamp forgotten; the timestamp left behind after a
\* refill; the timestamp set on every call; a fraction of a token dropped; the
\* test of refill_amount forgotten.
RefilledUnguarded(tokens, last, t, rate, capacity) ==
    <<Min(capacity * Scale, tokens + RefillAmount(last, t, rate)), t>>

RefilledNoClamp(tokens, last, t, rate, capacity) ==
    IF RefillAmount(last, t, rate) > 0
    THEN <<tokens + RefillAmount(last, t, rate), t>>
    ELSE <<tokens, last>>

RefilledStaleStamp(tokens, last, t, rate, capacity) ==
    IF RefillAmount(last, t, rate) > 0
    THEN <<Min(capacity * Scale, tokens + RefillAmount(last, t, rate)), last>>
    ELSE <<tokens, last>>

RefilledAlwaysStamp(tokens, last, t, rate, capacity) ==
    IF RefillAmount(last, t, rate) > 0
    THEN <<Min(capacity * Scale, tokens + RefillAmount(last, t, rate)), t>>
    ELSE <<tokens, t>>

RefilledWholeTokens(tokens, last, t, rate, capacity) ==
    IF RefillAmount(last, t, rate) > 0
    THEN <<Min(capacity * Scale,
               tokens + (RefillAmount(last, t, rate) \div Scale) * Scale), t>>
    ELSE <<tokens, last>>

Refilled(tokens, last, t, rate, capacity) ==
    IF RefillAmount(last, t, rate) > 0
    THEN <<Min(capacity * Scale, tokens + RefillAmount(last, t, rate)), t>>
    ELSE <<tokens, last>>

\* The test of allow_request: at least one whole token.
\* Faulty variants: the threshold off by one token; more than one token asked for.
HasTokenOffByOne(tokens) == tokens >= 0

HasTokenStrict(tokens) == tokens > Scale

HasToken(tokens) == tokens >= Scale

\* "with self.lock": enter when no thread holds the lock.
\* Faulty variant: the lock never keeps a thread out.
CanAcquireAlways(l) == TRUE

CanAcquire(l) == l = NoThread

\* allow_request run alone on a bucket b = <<tokens, timestamp>> at clock
\* reading t: <<tokens, timestamp, returned value>>.
SeqAllowRequest(b, t, rate, capacity) ==
    LET r == Refilled(b[1], b[2], t, rate, capacity)
    IN IF HasToken(r[1]) THEN <<r[1] - Scale, r[2], True>>
                         ELSE <<r[1], r[2], False>>

\* ---- TrafficSimulator ----

SimulatorInit ==
    /\ allowed = 0
    /\ blocked = 0
    /\ latencies = <<>>
    /\ sim_lock = NoThread

\* Arguments the constructors are called with.
Capacities == 1..MaxCapacity
AnyCapacities == (0 - 1)..MaxCapacity
Rates == 0..MaxRate
Durations == {0, MaxDuration}
WorkerCapacities == {WorkerCapacity}
WorkerRates == {0, MaxRate}

InitWith(capacities, rates, durations, first_pc, first_main) ==
    /\ clock = ConstructTime
    /\ \E c \in capacities, r \in rates : LimiterInit(c, r)
    /\ now = [w \in Threads |-> NoReading]
    /\ entry = [w \in Threads |-> NoEntry]
    /\ seq = <<available_tokens, last_refill_timestamp>>
    /\ expect = [w \in Threads |-> None]
    /\ duration \in durations
    /\ SimulatorInit
    /\ pc = [w \in Threads |-> first_pc]
    /\ end_time = [w \in Threads |-> 0]
    /\ start = [w \in Threads |-> 0]
    /\ result = [w \in Threads |-> None]
    /\ latency = [w \in Threads |-> 0]
    /\ counter = [w \in Threads |-> 0]
    /\ calls = 0
    /\ admitted = 0
    /\ main_pc = first_main
    /\ started = 0
    /\ joined = 0
    /\ printed = <<>>
    /\ reports = 0

\* ---- the clock ----

ClockAdvance ==
    /\ clock < MaxTime
    /\ clock' = clock + 1
    /\ UNCHANGED <<limiter_vars, lock, call_vars, sim_vars, sim_lock, pc, local_vars,
                   result, calls, admitted, main_vars>>

\* A clock that keeps advancing, in a finite model: up to MaxTime the clock
\* reading grows; from there on the reading stays and every clock reading the
\* program holds moves one tick into the past instead, which keeps each
\* difference between the clock and a held reading.  A reading more than
\* MaxTime ticks old is kept as MaxTime ticks old.
Back(t) == IF t > 0 THEN t - 1 ELSE 0

Tick ==
    IF clock < MaxTime
    THEN /\ clock' = clock + 1
         /\ UNCHANGED <<limiter_vars, lock, call_vars, sim_vars, sim_lock, pc,
                        local_vars, result, calls, admitted, main_vars>>
    ELSE /\ pc' = pc
         /\ reports' = reports
         /\ last_refill_timestamp' = Back(last_refill_timestamp)
         /\ seq' = <<seq[1], Back(seq[2])>>
         /\ now' = [w \in Threads |->
                       IF pc[w] \in {"check", "take", "reject"}
                       THEN Back(now[w]) ELSE now[w]]
         /\ entry' = [w \in Threads |->
                         IF pc[w] \in {"refill", "check", "take", "reject"}
                         THEN <<entry[w][1], Back(entry[w][2])>> ELSE entry[w]]
         /\ end_time' = [w \in Threads |-> Back(end_time[w])]
         /\ start' = [w \in Threads |-> Back(start[w])]
         /\ UNCHANGED <<clock, max_tokens, refill_rate, available_tokens, lock,
                        expect, sim_vars, sim_lock, latency, counter, result,
                        calls, admitted, main_pc, started, joined, printed>>

\* time.time() is the wall clock: it can be set back.
ClockStepBack ==
    /\ clock > 0
    /\ clock' = clock - 1
    /\ UNCHANGED <<limiter_vars, lock, call_vars, sim_vars, sim_lock, pc, local_vars,
                   result, calls, admitted, main_vars>>

\* ---- allow_request ----

\* allow_request calls begun: those completed and those under way.
CallsBegun ==
    calls + Cardinality({w \in Threads :
                pc[w] \in {"acquire", "refill", "check", "take", "reject"}})

\* Leaving a with block releases the lock: its holder after thread w has
\* left the block.
\* Faulty variant: the lock is never released.
ReleasedNever(w) == w

Released(w) == NoThread

\* A thread calls allow_request.
Call(w) ==
    /\ pc[w] \in {"ready", "returned"}
    /\ CallsBegun < MaxCalls
    /\ pc' = [pc EXCEPT ![w] = "acquire"]
    /\ result' = [result EXCEPT ![w] = None]
    /\ UNCHANGED <<clock, limiter_vars, lock, call_vars, sim_vars, sim_lock,
                   local_vars, calls, admitted, main_vars>>

\* A thread calls allow_request, any number of times.
CallAgain(w) ==
    /\ pc[w] \in {"ready", "returned"}
    /\ pc' = [pc EXCEPT ![w] = "acquire"]
    /\ result' = [result EXCEPT ![w] = None]
    /\ UNCHANGED <<clock, limiter_vars, lock, call_vars, sim_vars, sim_lock,
                   local_vars, calls, admitted, main_vars>>

\* with self.lock
Acquire(w) ==
    /\ pc[w] = "acquire"
    /\ CanAcquire(lock)
    /\ lock' = w
    /\ pc' = [pc EXCEPT ![w] = "refill"]
    /\ entry' = [entry EXCEPT ![w] = <<available_tokens, last_refill_timestamp>>]
    /\ UNCHANGED <<clock, limiter_vars, now, seq, expect, sim_vars, sim_lock,
                   local_vars, result, calls, admitted, main_vars>>

\* self._refill().  The sequential bucket takes the whole call here, at the
\* call's clock reading.
Refill(w) ==
    /\ pc[w] = "refill"
    /\ pc' = [pc EXCEPT ![w] = "check"]
    /\ now' = [now EXCEPT ![w] = clock]
    /\ LET r == Refilled(available_tokens, last_refill_timestamp, clock,
                         refill_rate, max_tokens)
       IN /\ available_tokens' = r[1]
          /\ last_refill_timestamp' = r[2]
    /\ LET s == SeqAllowRequest(seq, clock, refill_rate, max_tokens)
       IN /\ seq' = <<s[1], s[2]>>
          /\ expect' = [expect EXCEPT ![w] = s[3]]
    /\ UNCHANGED <<clock, max_tokens, refill_rate, lock, entry, sim_vars, sim_lock,
                   local_vars, result, calls, admitted, main_vars>>

\* if self.available_tokens >= 1
Check(w) ==
    /\ pc[w] = "check"
    /\ pc' = [pc EXCEPT ![w] = IF HasToken(available_tokens) THEN "take" ELSE "reject"]
    /\ UNCHANGED <<clock, limiter_vars, lock, call_vars, sim_vars, sim_lock,
                   local_vars, result, calls, admitted, main_vars>>

\* The way out of allow_request: the value is returned and the lock released.
\* calls and admitted count up to MaxCalls and stay there.
Leave(w, value) ==
    /\ pc' = [pc EXCEPT ![w] = "returned"]
    /\ result' = [result EXCEPT ![w] = value]
    /\ lock' = Released(w)
    /\ now' = [now EXCEPT ![w] = NoReading]
    /\ entry' = [entry EXCEPT ![w] = NoEntry]
    /\ expect' = [expect EXCEPT ![w] = None]
    /\ calls' = Min(calls + 1, MaxCalls)

\* self.available_tokens -= 1; return True
Take(w) ==
    /\ pc[w] = "take"
    /\ available_tokens' = available_tokens - Scale
    /\ admitted' = Min(admitted + 1, MaxCalls)
    /\ Leave(w, True)
    /\ UNCHANGED <<clock, max_tokens, refill_rate, last_refill_timestamp, seq,
                   sim_vars, sim_lock, local_vars, main_vars>>

\* return False
Reject(w) ==
    /\ pc[w] = "reject"
    /\ Leave(w, False)
    /\ UNCHANGED <<clock, limiter_vars, seq, admitted,
                   sim_vars, sim_lock, local_vars, main_vars>>

AllowRequest(w) ==
    \/ Acquire(w) \/ Refill(w) \/ Check(w) \/ Take(w) \/ Reject(w)

\* ---- run_test ----

SpawnWorker ==
    /\ main_pc = "spawn"
    /\ started < NumThreads
    /\ started' = started + 1
    /\ pc' = [pc EXCEPT ![started + 1] = "begin"]
    /\ UNCHANGED <<clock, limiter_vars, lock, call_vars, sim_vars, sim_lock,
                   local_vars, result, calls, admitted, main_pc, joined, printed,
                   reports>>

SpawnDone ==
    /\ main_pc = "spawn"
    /\ started = NumThreads
    /\ main_pc' = "join"
    /\ UNCHANGED <<clock, limiter_vars, lock, call_vars, sim_vars, sim_lock, pc,
                   local_vars, result, calls, admitted, started, joined, printed,
                   reports>>

\* t.join() returns once the thread has terminated.
\* Faulty variant: join returns at once.
JoinableAlways(p) == TRUE

Joinable(p) == p = "done"

JoinWorker ==
    /\ main_pc = "join"
    /\ joined < NumThreads
    /\ Joinable(pc[joined + 1])
    /\ joined' = joined + 1
    /\ UNCHANGED <<clock, limiter_vars, lock, call_vars, sim_vars, sim_lock, pc,
                   local_vars, result, calls, admitted, main_pc, started, printed,
                   reports>>

JoinDone ==
    /\ main_pc = "join"
    /\ joined = NumThreads
    /\ main_pc' = "report"
    /\ UNCHANGED <<clock, limiter_vars, lock, call_vars, sim_vars, sim_lock, pc,
                   local_vars, result, calls, admitted, started, joined, printed,
                   reports>>

\* ---- print_results ----

RECURSIVE SumSeq(_)
SumSeq(l) == IF l = <<>> THEN 0 ELSE Head(l) + SumSeq(Tail(l))

RECURSIVE MaxSeq(_)
MaxSeq(l) ==
    IF Len(l) = 1 THEN Head(l)
    ELSE IF Head(l) >= MaxSeq(Tail(l)) THEN Head(l) ELSE MaxSeq(Tail(l))

\* x / n as ":.6f" prints it: in millionths, rounded to the nearest.
Fixed6(x, n) == (2 * x * Decimals + n) \div (2 * n)

\* The lines print_results writes: the counts, then the average and the
\* maximum latency.  sum(...) / len(...) raises ZeroDivisionError when no
\* latency was recorded, after the counts have been written and before
\* anything else is.
Report(a, b, l) ==
    IF Len(l) = 0
    THEN <<a, b, a + b>>
    ELSE <<a, b, a + b, Fixed6(SumSeq(l), Len(l)), Fixed6(MaxSeq(l), 1)>>

\* print_results only reads the aggregates: the deque after it is the deque
\* before it.
\* Faulty variant: the latencies are consumed while they are summed.
AfterPrintDrained(l) == <<>>

AfterPrint(l) == l

\* print_results, as run_test calls it after the joins, or called again on the
\* simulator afterwards.  An exception leaves run_test.
PrintResults ==
    /\ main_pc \in {"report", "done", "crashed"}
    /\ reports < MaxReports
    /\ reports' = reports + 1
    /\ printed' = Report(allowed, blocked, latencies)
    /\ latencies' = AfterPrint(latencies)
    /\ main_pc' = IF Len(latencies) = 0 THEN "crashed" ELSE "done"
    /\ UNCHANGED <<clock, limiter_vars, lock, call_vars, duration, allowed, blocked,
                   sim_lock, pc, local_vars, result, calls, admitted, started, joined>>

\* ---- request_worker ----

\* end_time = time.time() + self.duration
Begin(w) ==
    /\ pc[w] = "begin"
    /\ end_time' = [end_time EXCEPT ![w] = clock + duration]
    /\ pc' = [pc EXCEPT ![w] = "loop"]
    /\ UNCHANGED <<clock, limiter_vars, lock, call_vars, sim_vars, sim_lock, start,
                   latency, counter, result, calls, admitted, main_vars>>

\* time.time() < end_time
\* Faulty variant: the iteration at the deadline itself is still started.
BeforeDeadlineInclusive(t, e) == t <= e

BeforeDeadline(t, e) == t < e

\* while time.time() < end_time: start = time.time(), and the call
LoopEnter(w) ==
    /\ pc[w] = "loop"
    /\ BeforeDeadline(clock, end_time[w])
    /\ CallsBegun < MaxWorkerCalls
    /\ start' = [start EXCEPT ![w] = clock]
    /\ pc' = [pc EXCEPT ![w] = "acquire"]
    /\ UNCHANGED <<clock, limiter_vars, lock, call_vars, sim_vars, sim_lock, end_time,
                   latency, counter, result, calls, admitted, main_vars>>

LoopExit(w) ==
    /\ pc[w] = "loop"
    /\ ~BeforeDeadline(clock, end_time[w])
    /\ pc' = [pc EXCEPT ![w] = "done"]
    /\ UNCHANGED <<clock, limiter_vars, lock, call_vars, sim_vars, sim_lock,
                   local_vars, result, calls, admitted, main_vars>>

\* latency = time.time() - start
Latency(w) ==
    /\ pc[w] = "returned"
    /\ latency' = [latency EXCEPT ![w] = clock - start[w]]
    /\ start' = [start EXCEPT ![w] = 0]
    /\ pc' = [pc EXCEPT ![w] = "stat_acquire"]
    /\ UNCHANGED <<clock, limiter_vars, lock, call_vars, sim_vars, sim_lock, end_time,
                   counter, result, calls, admitted, main_vars>>

\* with self.lock (the simulator's)
StatAcquire(w) ==
    /\ pc[w] = "stat_acquire"
    /\ CanAcquire(sim_lock)
    /\ sim_lock' = w
    /\ pc' = [pc EXCEPT ![w] = "tally"]
    /\ UNCHANGED <<clock, limiter_vars, lock, call_vars, sim_vars, local_vars,
                   result, calls, admitted, main_vars>>

\* self.allowed += 1 or self.blocked += 1: the counter is read ...
TallyLoad(w) ==
    /\ pc[w] = "tally"
    /\ counter' = [counter EXCEPT ![w] = IF result[w] = True THEN allowed ELSE blocked]
    /\ pc' = [pc EXCEPT ![w] = "tally_store"]
    /\ UNCHANGED <<clock, limiter_vars, lock, call_vars, sim_vars, sim_lock, end_time,
                   start, latency, result, calls, admitted, main_vars>>

\* ... and written back one higher; the latency is appended and the
\* simulator's lock released.
TallyStore(w) ==
    /\ pc[w] = "tally_store"
    /\ pc' = [pc EXCEPT ![w] = "sleep"]
    /\ IF result[w] = True
       THEN allowed' = counter[w] + 1 /\ UNCHANGED blocked
       ELSE blocked' = counter[w] + 1 /\ UNCHANGED allowed
    /\ latencies' = Append(latencies, latency[w])
    /\ sim_lock' = Released(w)
    /\ result' = [result EXCEPT ![w] = None]
    /\ latency' = [latency EXCEPT ![w] = 0]
    /\ counter' = [counter EXCEPT ![w] = 0]
    /\ UNCHANGED <<clock, limiter_vars, lock, call_vars, duration, end_time, start,
                   calls, admitted, main_vars>>

\* time.sleep(...), either profile
Sleep(w) ==
    /\ pc[w] = "sleep"
    /\ pc' = [pc EXCEPT ![w] = "loop"]
    /\ UNCHANGED <<clock, limiter_vars, lock, call_vars, sim_vars, sim_lock,
                   local_vars, result, calls, admitted, main_vars>>

RequestWorker(w) ==
    \/ Begin(w) \/ LoopEnter(w) \/ LoopExit(w)
    \/ Latency(w) \/ StatAcquire(w) \/ TallyLoad(w) \/ TallyStore(w) \/ Sleep(w)

RunTest == SpawnWorker \/ SpawnDone \/ JoinWorker \/ JoinDone \/ PrintResults

\* ---- specifications ----

\* Threads calling allow_request on one limiter, constructed with a positive
\* capacity and a non-negative rate.
Init == InitWith(Capacities, Rates, {0}, "ready", "none")

Next ==
    \/ ClockAdvance
    \/ ClockStepBack
    \/ \E w \in Threads : Call(w) \/ AllowRequest(w)

Spec == Init /\ [][Next]_vars

\* The same under a clock that never goes back.
NextMonotonic ==
    \/ ClockAdvance
    \/ \E w \in Threads : Call(w) \/ AllowRequest(w)

SpecMonotonic == Init /\ [][NextMonotonic]_vars

\* The same with every capacity the constructor takes.
InitAnyArgs == InitWith(AnyCapacities, Rates, {0}, "ready", "none")

SpecAnyArgs == InitAnyArgs /\ [][Next]_vars

\* run_test: the simulator's workers on one limiter, under a clock that never
\* goes back.  The run is either empty (duration 0) or long; the limiter
\* either never refills or refills at the highest rate.
InitHarness == InitWith(WorkerCapacities, WorkerRates, Durations, "idle", "spawn")

NextHarness ==
    \/ ClockAdvance
    \/ RunTest
    \/ \E w \in Threads : RequestWorker(w) \/ AllowRequest(w)

SpecHarness == InitHarness /\ [][NextHarness]_vars

\* The clock and the clock readings the objects keep.
time_vars == <<clock, last_refill_timestamp, seq, end_time, start>>

\* Threads that keep calling allow_request while the clock keeps advancing:
\* the clock always ticks again, and every thread that can take a step
\* eventually takes one.  Every step of a thread changes its pc, every step of
\* run_test changes main_pc, started, joined or reports.  The limiter has the
\* smallest or the largest capacity, and never refills, or refills at the
\* lowest or at the highest rate.
LiveCapacities == {1, MaxCapacity}
LiveRates == {0, 1, MaxRate}

InitLive == InitWith(LiveCapacities, LiveRates, {0}, "ready", "none")

NextLive ==
    \/ Tick
    \/ \E w \in Threads : CallAgain(w) \/ AllowRequest(w)

SpecLive ==
    /\ InitLive
    /\ [][NextLive]_vars
    /\ WF_time_vars(Tick)
    /\ \A w \in Threads : WF_pc(CallAgain(w) \/ AllowRequest(w))

\* run_test under fair scheduling and a clock that keeps advancing: the clock
\* always ticks again, the main thread and every worker that can take a step
\* eventually take one.
NextHarnessFair ==
    \/ Tick
    \/ RunTest
    \/ \E w \in Threads : RequestWorker(w) \/ AllowRequest(w)

SpecHarnessFair ==
    /\ InitHarness
    /\ [][NextHarnessFair]_vars
    /\ WF_time_vars(Tick)
    /\ WF_<<main_pc, started, joined, reports>>(RunTest)
    /\ \A w \in Threads : WF_pc(RequestWorker(w) \/ AllowRequest(w))

\* ---- what the formulas below read ----

\* The threads inside allow_request's critical section.
InCriticalSection == {w \in Threads : pc[w] \in {"refill", "check", "take", "reject"}}

ReturnedTrue == {w \in Threads : pc[w] = "returned" /\ result[w] = True}
ReturnedFalse == {w \in Threads : pc[w] = "returned" /\ result[w] = False}

\* Every thread has called allow_request exactly once and has its answer.
EachCalledOnce == calls = NumThreads /\ \A w \in Threads : pc[w] = "returned"

\* ---- C1 ----
\* C1: whenever no call is inside the critical section (the lock is free),
\* 0 <= available_tokens <= max_tokens, whatever the calls and the clock did.
C1_CapacityBound ==
    lock = NoThread =>
        /\ 0 <= available_tokens
        /\ available_tokens <= max_tokens * Scale

\* The bucket was refilled, and has been drawn down to the lower bound; the
\* lock is free.
C1_Witness ==
    /\ lock = NoThread
    /\ admitted > max_tokens
    /\ last_refill_timestamp > ConstructTime
    /\ available_tokens = 0

\* ---- C2 ----
\* C2: with refill_rate 0, once each of the K threads has called allow_request
\* once on the fresh limiter of capacity C, exactly min(K, C) calls returned
\* True and the other K - min(K, C) returned False.
C2_ExactAdmissions ==
    (refill_rate = 0 /\ EachCalledOnce) =>
        /\ Cardinality(ReturnedTrue) = Min(NumThreads, max_tokens)
        /\ Cardinality(ReturnedFalse) = NumThreads - Min(NumThreads, max_tokens)
        /\ admitted <= max_tokens

\* More callers than tokens: one call each, and some call was turned away.
C2_Witness ==
    /\ refill_rate = 0
    /\ EachCalledOnce
    /\ max_tokens < NumThreads
    /\ ReturnedFalse # {}
    /\ ReturnedTrue # {}

\* ---- C3 ----
\* C3: at most one thread is between the start of _refill and the return of
\* allow_request, that thread holds the lock, and a thread about to take a
\* token finds a whole token there.
C3_OneCriticalSection ==
    /\ Cardinality(InCriticalSection) <= 1
    /\ \A w \in InCriticalSection : lock = w
    /\ \A w \in Threads : pc[w] = "take" => available_tokens >= Scale

\* One thread is about to take the last token while another waits for the lock.
C3_Witness ==
    \E w, v \in Threads :
        /\ pc[w] = "take"
        /\ pc[v] = "acquire"
        /\ available_tokens = Scale

\* ---- C4 ----
\* C4: under a clock that never goes back, the calls that have returned True
\* by clock time t number at most max_tokens + refill_rate * (t - construction
\* time); with no time elapsed that is at most max_tokens.
C4_AdmissionBound ==
    admitted * Scale <= max_tokens * Scale + refill_rate * (clock - ConstructTime)

\* Refill let more calls through than the bucket holds, up to the bound.
C4_Witness ==
    /\ admitted > max_tokens
    /\ admitted * Scale = max_tokens * Scale + refill_rate * (clock - ConstructTime)

\* ---- C5 ----
\* C5: for every capacity and rate the constructor takes, a call that finds
\* the bucket at 0 tokens, t >= 0 after last_refill_timestamp, returns True if
\* and only if t * refill_rate >= 1.
C5_RefillAccuracy ==
    \A w \in Threads :
        (/\ pc[w] \in {"take", "reject"}
         /\ entry[w][1] = 0
         /\ now[w] >= entry[w][2])
        => (pc[w] = "take" <=> (now[w] - entry[w][2]) * refill_rate >= Scale)

\* ---- C6 ----
\* C6 as claimed: every call about to return False has set
\* last_refill_timestamp to its clock reading and left available_tokens at
\* min(max_tokens, old tokens + elapsed * refill_rate).
C6_RejectionAlwaysStamps ==
    \A w \in Threads :
        pc[w] = "reject" =>
            /\ last_refill_timestamp = now[w]
            /\ available_tokens =
                   Min(max_tokens * Scale,
                       entry[w][1] + (now[w] - entry[w][2]) * refill_rate)

\* C6 as amended: a call about to return False has, when elapsed * refill_rate
\* > 0, set last_refill_timestamp to its clock reading and available_tokens to
\* min(max_tokens, old tokens + elapsed * refill_rate); otherwise it has left
\* both as it found them.  No time is credited twice: the tokens in the
\* bucket and the tokens taken together never exceed max_tokens plus what
\* accrued up to last_refill_timestamp.
C6_RejectionKeepsRefill ==
    /\ \A w \in Threads :
           pc[w] = "reject" =>
               IF (now[w] - entry[w][2]) * refill_rate > 0
               THEN /\ last_refill_timestamp = now[w]
                    /\ available_tokens =
                           Min(max_tokens * Scale,
                               entry[w][1] + (now[w] - entry[w][2]) * refill_rate)
               ELSE /\ last_refill_timestamp = entry[w][2]
                    /\ available_tokens = entry[w][1]
    /\ available_tokens + admitted * Scale
           <= max_tokens * Scale
              + refill_rate * (last_refill_timestamp - ConstructTime)

\* A call about to return False has added a fraction of a token to the bucket.
C6_Witness ==
    \E w \in Threads :
        /\ pc[w] = "reject"
        /\ available_tokens > entry[w][1]
        /\ last_refill_timestamp = now[w]
        /\ last_refill_timestamp > entry[w][2]

\* ---- C7 ----
\* C7: no limiter with max_tokens <= 0 is ever constructed.
C7_CapacityPositive == max_tokens > 0

\* ---- C8 ----
\* C8: no step makes last_refill_timestamp smaller, also when the clock has
\* gone back.
C8_TimestampMonotonic ==
    [][last_refill_timestamp' >= last_refill_timestamp]_vars

\* A call read a clock that is behind last_refill_timestamp, and has refilled.
C8_Witness ==
    \E w \in Threads :
        /\ pc[w] = "check"
        /\ now[w] < last_refill_timestamp
        /\ refill_rate > 0

\* ---- C9 ----
\* C9: the calls take effect one at a time, each at a moment between its
\* start and its return: every call returns what the sequential bucket
\* returned when given the calls in that order, and whenever no call is in the
\* critical section the bucket equals the sequential bucket.
C9_Linearizable ==
    /\ lock = NoThread => <<available_tokens, last_refill_timestamp>> = seq
    /\ \A w \in Threads :
           /\ pc[w] = "take" => expect[w] = True
           /\ pc[w] = "reject" => expect[w] = False

\* Two calls overlap: one is about to return False while the other, which
\* started before it returns, waits; some call has already returned True.
C9_Witness ==
    \E w, v \in Threads :
        /\ pc[w] = "reject"
        /\ pc[v] = "acquire"
        /\ admitted > 0
        /\ calls > 1

\* ---- C10 ----
AllWorkersDone == \A w \in Threads : pc[w] = "done"

\* C10: every completed call is tallied once, as allowed or as blocked, with
\* one latency entry.  While no worker is inside the tally, allowed + blocked
\* = len(latencies); after all workers have finished, that is the number of
\* calls made, and allowed is the number of calls the limiter admitted.
C10_TallyExact ==
    /\ sim_lock = NoThread => allowed + blocked = Len(latencies)
    /\ AllWorkersDone =>
           /\ allowed + blocked = calls
           /\ Len(latencies) = calls
           /\ allowed = admitted

\* All workers have finished, with calls of both outcomes tallied.
C10_Witness ==
    /\ AllWorkersDone
    /\ calls = MaxWorkerCalls
    /\ allowed > 0
    /\ blocked > 0

\* ---- C11 ----
\* C11: print_results reads the aggregates only when every worker that
\* run_test started has terminated.
C11_ReportAfterJoin ==
    main_pc \in {"report", "done", "crashed"} =>
        /\ started = NumThreads
        /\ \A w \in Threads : pc[w] = "done"

\* The report has been written after workers that made calls.
C11_Witness ==
    /\ main_pc = "done"
    /\ reports = 1
    /\ calls = MaxWorkerCalls

\* ---- C12 ----
\* C12: a report over zero recorded calls completes normally; print_results
\* never raises.
C12_EmptyReportHandled == main_pc # "crashed"

\* ---- C13 ----

\* A step of the program, as opposed to a step of the clock.
ProgramStep == RunTest \/ \E w \in Threads : RequestWorker(w) \/ AllowRequest(w)

\* Worker w would start another call, and the model's bound on calls is used up.
CallsUsedUp(w) ==
    /\ pc[w] = "loop"
    /\ BeforeDeadline(clock, end_time[w])
    /\ CallsBegun >= MaxWorkerCalls

\* C13: no thread holds the limiter's lock and the simulator's lock at once,
\* and while some worker has not finished some step of the program is enabled
\* (unless every unfinished worker only waits for the bound on calls).
C13_NoDeadlock ==
    /\ \A w \in Threads : ~(lock = w /\ sim_lock = w)
    /\ (\E w \in Threads : pc[w] # "done") =>
           \/ ENABLED ProgramStep
           \/ \A w \in Threads : pc[w] # "done" => CallsUsedUp(w)

\* One worker holds the limiter's lock while another holds the simulator's, and
\* a third party waits: here the main thread, at its join.
C13_Witness ==
    /\ main_pc = "join"
    /\ \E w, v \in Threads : w # v /\ lock = w /\ sim_lock = v

\* ---- C17 ----
\* C17: a worker in its sleep holds neither lock.
C17_SleepHoldsNoLock ==
    \A w \in Threads : pc[w] = "sleep" => lock # w /\ sim_lock # w

\* A worker sleeps while another worker holds a lock.
C17_Witness ==
    \E w, v \in Threads : pc[w] = "sleep" /\ w # v /\ (lock = v \/ sim_lock = v)

\* ---- C14 ----
\* C14: print_results leaves allowed, blocked and latencies as they are, and a
\* second report from the same aggregates writes what the first one wrote.
C14_ReportIdempotent ==
    [][reports' # reports =>
          /\ allowed' = allowed
          /\ blocked' = blocked
          /\ latencies' = latencies
          /\ reports > 0 => printed' = printed]_vars

\* Two reports have been written over recorded calls, admitted and rejected.
C14_Witness ==
    /\ reports = 2
    /\ main_pc = "done"
    /\ allowed > 0
    /\ blocked > 0
    /\ printed = Report(allowed, blocked, latencies)

\* ---- C15 ----

\* Thread w returns from allow_request in this step.
Returns(w) == pc[w] \in {"take", "reject"} /\ pc'[w] = "returned"

\* C15: a call returns True exactly when the refilled bucket holds at least
\* one token; a call returning True takes exactly one token, a call returning
\* False leaves the bucket as the refill left it; max_tokens and refill_rate
\* never change.
C15_AdmissionDecision ==
    [][/\ \A w \in Threads :
              Returns(w) =>
                  /\ available_tokens =
                         IF (now[w] - entry[w][2]) * refill_rate > 0
                         THEN Min(max_tokens * Scale,
                                  entry[w][1] + (now[w] - entry[w][2]) * refill_rate)
                         ELSE entry[w][1]
                  /\ result'[w] = True <=> available_tokens >= Scale
                  /\ result'[w] = True => available_tokens' = available_tokens - Scale
                  /\ result'[w] = False => available_tokens' = available_tokens
       /\ max_tokens' = max_tokens
       /\ refill_rate' = refill_rate]_vars

\* A call is about to return True on a bucket that a refill brought to exactly
\* one token.
C15_Witness ==
    \E w \in Threads :
        /\ pc[w] = "take"
        /\ available_tokens = Scale
        /\ entry[w][1] < Scale

\* ---- C16 ----
\* C16: the refill step never lowers available_tokens, and leaves the bucket
\* as it is when the clock reads no later than last_refill_timestamp; the only
\* step that lowers available_tokens is an admission, by exactly one token.
C16_RefillNeverDecreases ==
    [][/\ \A w \in Threads :
              pc[w] = "refill" /\ pc'[w] = "check" =>
                  /\ available_tokens' >= available_tokens
                  /\ clock <= last_refill_timestamp =>
                         /\ available_tokens' = available_tokens
                         /\ last_refill_timestamp' = last_refill_timestamp
       /\ available_tokens' < available_tokens =>
              /\ available_tokens' = available_tokens - Scale
              /\ \E w \in Threads : pc[w] = "take" /\ result'[w] = True]_vars

\* A refill has run at a clock reading earlier than last_refill_timestamp, on a
\* bucket that refills and is not full.
C16_Witness ==
    \E w \in Threads :
        /\ pc[w] = "check"
        /\ now[w] < entry[w][2]
        /\ refill_rate > 0
        /\ available_tokens = entry[w][1]
        /\ available_tokens < max_tokens * Scale

\* ---- C18 ----

\* Worker w has set its deadline.
Begun(w) == pc[w] \notin {"idle", "begin"}

\* Worker w is inside an iteration, between its loop test and its latency.
InIteration(w) ==
    pc[w] \in {"acquire", "refill", "check", "take", "reject", "returned"}

InCall(w) == pc[w] \in {"acquire", "refill", "check", "take", "reject"}

\* C19: under fair scheduling and an advancing clock every call of
\* allow_request returns, every worker terminates, and run_test reaches its
\* report; a worker whose request was rejected tallies it and goes on to the
\* next loop test.
C19_RunTerminates ==
    /\ \A w \in Threads : InCall(w) ~> (pc[w] = "returned")
    /\ <>(\A w \in Threads : pc[w] = "done")
    /\ <>(main_pc = "report")
    /\ \A w \in Threads :
           (pc[w] = "returned" /\ result[w] = False) ~> (pc[w] = "loop" /\ blocked > 0)

\* The run has reached its report after a rejected request was tallied, and
\* time has passed beyond MaxTime.
C19_Witness ==
    /\ main_pc = "report"
    /\ blocked > 0
    /\ allowed > 0
    /\ clock = MaxTime
    /\ \A w \in Threads : pc[w] = "done" /\ end_time[w] < MaxTime

\* ---- C20 ----
\* C20: with refill_rate > 0, while the clock keeps advancing and
\* allow_request keeps being called, again and again a call returns True; with
\* refill_rate = 0, once the bucket holds less than one token no call returns
\* True any more.
C20_AdmissionLive ==
    /\ refill_rate > 0 => []<>(\E w \in Threads : pc[w] = "take")
    /\ [](refill_rate = 0 /\ available_tokens < Scale =>
              [](\A w \in Threads : pc[w] # "take"))

\* A call is about to return True on a bucket that was drained below one token
\* after all its initial tokens were taken.
C20_Witness ==
    \E w \in Threads :
        /\ pc[w] = "take"
        /\ refill_rate > 0
        /\ entry[w][1] < Scale
        /\ admitted > max_tokens

====
